---- MODULE Spec2Model ----
(***************************************************************************)
(* Model of app.py: a Streamlit form that appends a (Name, Song1, Song2)   *)
(* row to a TSV file kept on Dropbox, via download / load / append / save  *)
(* / upload on a local copy of the file.                                   *)
(*                                                                         *)
(* Text is a sequence of one-character strings.  A file is NoFile or a     *)
(* sequence of lines, each line a sequence of fields (the TSV structure:   *)
(* lines split on the line terminator, fields split on TAB).  The alphabet *)
(* of the model has no TAB, quote or newline character, so csv quoting     *)
(* never applies to a field.                                               *)
(***************************************************************************)
EXTENDS Integers, Sequences, FiniteSets, TLC

\* ------------------------------------------------------------------ bounds
MaxRows == 3

Procs == {1, 2}
Hosts == {1, 2}

\* ------------------------------------------------------- program constants
COLUMNS == << <<"N","a","m","e">>, <<"S","o","n","g","1">>, <<"S","o","n","g","2">> >>

NoFile == << <<"<absent>">> >>

\* a missing value of a dataframe cell (float NaN), and pandas' pd.NA
NaN  == <<"<float nan>">>
PdNA == <<"<pd.NA>">>

\* pandas' default na_values, which read_csv applies also under dtype=str
NaTokens ==
  { <<>>, <<"N","A">>, <<"n","a","n">>, <<"N","a","N">>, <<"N","/","A">>,
    <<"n","/","a">>, <<"N","U","L","L">>, <<"n","u","l","l">>,
    <<"N","o","n","e">>, <<"<","N","A",">">>, <<"#","N","/","A">>,
    <<"#","N","A">>, <<"-","N","a","N">>, <<"-","n","a","n">> }

\* ------------------------------------------------------------------ inputs
\* what a user can type into the three text inputs
NameInputs  == { <<>>, <<" ","N","A"," ">>, <<"a">> }
Song1Inputs == { <<" ">>, <<"x">> }
Song2Inputs == { <<>>, <<"y"," ">> }

EmptyForm == << <<>>, <<>>, <<>> >>

\* ------------------------------------------------------------ pure helpers
IsSpace(c) == c = " "

RECURSIVE lstrip(_)
lstrip(s) == IF s # <<>> /\ IsSpace(Head(s)) THEN lstrip(Tail(s)) ELSE s

RECURSIVE rstrip(_)
rstrip(s) ==
  IF s # <<>> /\ IsSpace(s[Len(s)]) THEN rstrip(SubSeq(s, 1, Len(s) - 1)) ELSE s

\* variant: the values are taken as typed
strip_none(s) == s

\* str.strip()
strip(s) == rstrip(lstrip(s))

\* variant: only the name is required
AnyEmpty_NameOnly(n, s1, s2) == n = <<>>

\* the handler's test "not clean_name or not clean_song1 or not clean_song2"
AnyEmpty(n, s1, s2) == n = <<>> \/ s1 = <<>> \/ s2 = <<>>

\* index of column c in a header, 0 when absent
RECURSIVE IndexOf(_, _, _)
IndexOf(hdr, c, i) ==
  IF i > Len(hdr) THEN 0 ELSE IF hdr[i] = c THEN i ELSE IndexOf(hdr, c, i + 1)

EmptyDF == [columns |-> COLUMNS, rows |-> <<>>]

\* the outcome of a call that raised
Raised == [raised |-> TRUE]

\* variant: a parser that drops surplus fields instead of raising
read_csv_lenient(f) ==
  IF f = NoFile \/ f = <<>> THEN Raised
  ELSE [columns |-> f[1],
        rows |-> [i \in 1..(Len(f) - 1) |->
                   [j \in 1..Len(f[1]) |->
                     IF j > Len(f[i + 1]) THEN NaN
                     ELSE IF f[i + 1][j] \in NaTokens THEN NaN
                     ELSE f[i + 1][j]]]]

\* pd.read_csv(sep="\t", dtype=str): Raised for EmptyDataError (no header
\* line) and ParserError (a line with more fields than the header); short
\* lines are padded with NaN; NA tokens become NaN.
read_csv(f) ==
  IF f = NoFile \/ f = <<>> THEN Raised
  ELSE IF \E i \in 2..Len(f) : Len(f[i]) > Len(f[1]) THEN Raised
  ELSE [columns |-> f[1],
        rows |-> [i \in 1..(Len(f) - 1) |->
                   [j \in 1..Len(f[1]) |->
                     IF j > Len(f[i + 1]) THEN NaN
                     ELSE IF f[i + 1][j] \in NaTokens THEN NaN
                     ELSE f[i + 1][j]]]]

\* .astype(str) on one cell
astype_str(v) ==
  IF v = NaN THEN <<"n","a","n">>
  ELSE IF v = PdNA THEN <<"<","N","A",">">>
  ELSE v

\* variant: every submission starts from an empty table
load_tsv_fresh(f) == EmptyDF

\* load_tsv: read (or fall back to empty), add missing columns as pd.NA,
\* select COLUMNS in order, convert every cell to str
load_tsv(f) ==
  LET df0 == IF f = NoFile THEN EmptyDF
             ELSE IF read_csv(f) = Raised THEN EmptyDF
             ELSE read_csv(f)
  IN [columns |-> COLUMNS,
      rows |-> [i \in 1..Len(df0.rows) |->
                 [k \in 1..Len(COLUMNS) |->
                   LET j == IndexOf(df0.columns, COLUMNS[k], 1)
                   IN astype_str(IF j = 0 THEN PdNA ELSE df0.rows[i][j])]]]

\* pd.concat([df, new_row], ignore_index=True)
concat(df, row) == [columns |-> df.columns, rows |-> Append(df.rows, row)]

\* df.to_csv(sep="\t", index=False): header line, then one line per row
to_csv(df) == <<df.columns>> \o df.rows

\* variant: an existing local file is not overwritten
download_write_keep(old, content) == IF old = NoFile THEN content ELSE old

\* the local file after a successful download: res.content written over it
download_write(old, content) == content

\* variant: WriteMode add without overwrite, an existing remote file is kept
files_upload_keep(old, data) == IF old = NoFile THEN data ELSE old

\* the remote file after files_upload(..., mode=overwrite)
files_upload(old, data) == data

\* variant: the inputs are cleared whatever append_submission returned
after_submit_clear(form, ok) == EmptyForm

\* session_state of the three inputs after append_submission returned ok
after_submit(form, ok) == IF ok THEN EmptyForm ELSE form

\* the data lines of a file (none when absent or empty)
Rows(f) == IF f = NoFile \/ f = <<>> THEN <<>> ELSE Tail(f)

\* -------------------------------------------------------------------- state
VARIABLES
  remote,    \* content of REMOTE_TSV_PATH on Dropbox
  local,     \* content of LOCAL_TSV_PATH on each host
  procs,     \* the browser sessions (submitters) that exist
  hostOf,    \* the host whose working directory a session's script runs in
  pc,        \* position of each session's script run
  form,      \* session_state name / song1 / song2 of each session
  outcome,   \* the message the handler showed in the current script run
  run,       \* locals and history of the current submission of each session
  unsynced   \* per host: rows whose latest submission was saved locally but not
             \* uploaded, each with its number of occurrences in the remote
             \* table at that time

vars == <<remote, local, procs, hostOf, pc, form, outcome, run, unsynced>>

RunIdle ==
  [row |-> <<>>, dl |-> "none", remote0 |-> NoFile, src |-> NoFile,
   df |-> EmptyDF, sent |-> NoFile, up |-> "none", nDown |-> 0, nUp |-> 0,
   dirty |-> FALSE, overtaken |-> FALSE]

\* rows a valid submission can produce from the inputs
ValidRows ==
  { <<strip(n), strip(s1), strip(s2)>> :
      n \in { x \in NameInputs : strip(x) # <<>> },
      s1 \in { x \in Song1Inputs : strip(x) # <<>> },
      s2 \in { x \in Song2Inputs : strip(x) # <<>> } }

\* a file this program wrote: the header and rows of valid submissions
WrittenFiles == { to_csv([columns |-> COLUMNS, rows |-> <<r>>]) : r \in ValidRows }

\* local files that read_csv cannot parse: zero bytes, or a line with more
\* fields than the header
MalformedFiles == { <<>>, << <<<<"a">>>>, << <<"a">>, <<"x">> >> >> }

Malformed(f) == f # NoFile /\ read_csv(f) = Raised

InitCommon ==
  /\ remote \in {NoFile} \cup WrittenFiles
  /\ pc = [p \in Procs |-> "idle"]
  /\ form = [p \in Procs |-> EmptyForm]
  /\ outcome = [p \in Procs |-> "none"]
  /\ run = [p \in Procs |-> RunIdle]
  /\ unsynced = [h \in Hosts |-> {}]

\* one submitter on one host
Init ==
  /\ InitCommon
  /\ procs = {1}
  /\ hostOf = [p \in Procs |-> 1]
  /\ local \in { [h \in Hosts |-> IF h = 1 THEN f ELSE NoFile] :
                   f \in {NoFile} \cup MalformedFiles \cup WrittenFiles }

\* two submitters, in one server process (one working directory) or in two
InitConc ==
  /\ InitCommon
  /\ procs = {1, 2}
  /\ hostOf \in { [p \in Procs |-> 1], [p \in Procs |-> p] }
  /\ local = [h \in Hosts |-> NoFile]

InFlight(q) == pc[q] \in {"load", "save", "upload"}

\* history: another session wrote the local file that session q works on
MarkDirty(r, p, h, wrote) ==
  [q \in Procs |->
    IF q # p /\ q \in procs /\ hostOf[q] = h /\ InFlight(q) /\ wrote
    THEN [r[q] EXCEPT !.dirty = TRUE] ELSE r[q]]

\* history: another session replaced the remote file after q's download
MarkOvertaken(r, p, uploaded) ==
  [q \in Procs |->
    IF q # p /\ q \in procs /\ InFlight(q) /\ uploaded
    THEN [r[q] EXCEPT !.overtaken = TRUE] ELSE r[q]]

\* outcomes of dbx.files_download: the content, ApiError (no such file), or
\* another exception (network)
DownloadResults == IF remote = NoFile THEN {"notfound", "error"} ELSE {"ok", "error"}

\* variant: a failed download is not caught and ends the script run
after_download_fatal(res) == IF res = "ok" THEN "load" ELSE "crashed"

\* where append_submission continues after download_from_dropbox returned
after_download(res) == "load"

\* the bound of the model: a valid submission starts only while every table
\* (remote, local, in memory) has fewer than MaxRows rows
Small ==
  /\ Len(Rows(remote)) < MaxRows
  /\ \A h \in Hosts : Len(Rows(local[h])) < MaxRows
  /\ \A q \in Procs : Len(run[q].df.rows) < MaxRows

Occurrences(r, rows) == Cardinality({ i \in 1..Len(rows) : rows[i] = r })

\* history: the row <<n, s1, s2>> is submitted again on host h (nothing else
\* is when a field is empty)
Resubmitted(u, h, n, s1, s2) ==
  IF AnyEmpty(n, s1, s2) THEN u
  ELSE [u EXCEPT ![h] = { x \in @ : x.row # <<n, s1, s2>> }]

\* ------------------------------------------------------------------ actions
\* "if submit:" with the typed values: strip, validate, reject or start
\* append_submission
Submit(p, n, s1, s2) ==
  /\ pc[p] = "idle"
  /\ form' = [form EXCEPT ![p] = <<n, s1, s2>>]
  /\ IF AnyEmpty(strip(n), strip(s1), strip(s2))
     THEN /\ outcome' = [outcome EXCEPT ![p] = "rejected"]
          /\ pc' = [pc EXCEPT ![p] = "preview"]
          /\ run' = [run EXCEPT ![p] = RunIdle]
     ELSE /\ Small
          /\ outcome' = [outcome EXCEPT ![p] = "none"]
          /\ pc' = [pc EXCEPT ![p] = "download"]
          /\ run' = [run EXCEPT ![p] =
                       [RunIdle EXCEPT !.row = <<strip(n), strip(s1), strip(s2)>>]]
  /\ unsynced' = Resubmitted(unsynced, hostOf[p], strip(n), strip(s1), strip(s2))
  /\ UNCHANGED <<remote, local, procs, hostOf>>

\* download_from_dropbox at the start of append_submission
Download(p, res) ==
  /\ pc[p] = "download"
  /\ res \in DownloadResults
  /\ local' = IF res = "ok"
              THEN [local EXCEPT ![hostOf[p]] = download_write(@, remote)]
              ELSE local
  /\ run' = [MarkDirty(run, p, hostOf[p], res = "ok") EXCEPT
               ![p] = [@ EXCEPT !.dl = res, !.remote0 = remote,
                                !.nDown = @ + 1]]
  /\ pc' = [pc EXCEPT ![p] = after_download(res)]
  /\ UNCHANGED <<remote, procs, hostOf, form, outcome, unsynced>>

\* df = load_tsv(...); df = pd.concat([df, new_row])
Load(p) ==
  /\ pc[p] = "load"
  /\ run' = [run EXCEPT ![p] =
               [@ EXCEPT !.src = local[hostOf[p]],
                         !.df = concat(load_tsv(local[hostOf[p]]), run[p].row)]]
  /\ pc' = [pc EXCEPT ![p] = "save"]
  /\ UNCHANGED <<remote, local, procs, hostOf, form, outcome, unsynced>>

\* save_tsv(df, LOCAL_TSV_PATH)
Save(p) ==
  /\ pc[p] = "save"
  /\ local' = [local EXCEPT ![hostOf[p]] = to_csv(run[p].df)]
  /\ run' = MarkDirty(run, p, hostOf[p], TRUE)
  /\ pc' = [pc EXCEPT ![p] = "upload"]
  /\ UNCHANGED <<remote, procs, hostOf, form, outcome, unsynced>>

\* upload_to_dropbox, then the handler's report: success and cleared inputs,
\* or the soft error
Upload(p, ok) ==
  /\ pc[p] = "upload"
  /\ ok => local[hostOf[p]] # NoFile
  /\ remote' = IF ok THEN files_upload(remote, local[hostOf[p]]) ELSE remote
  /\ run' = [MarkOvertaken(run, p, ok) EXCEPT
               ![p] = [@ EXCEPT !.sent = local[hostOf[p]],
                                !.up = IF ok THEN "ok" ELSE "error",
                                !.nUp = @ + 1]]
  /\ outcome' = [outcome EXCEPT ![p] = IF ok THEN "success" ELSE "softerror"]
  /\ form' = [form EXCEPT ![p] = after_submit(@, ok)]
  /\ unsynced' = IF ok THEN unsynced
                 ELSE [unsynced EXCEPT ![hostOf[p]] =
                         @ \cup {[row |-> run[p].row,
                                  base |-> Occurrences(run[p].row, Rows(remote))]}]
  /\ pc' = [pc EXCEPT ![p] = "preview"]
  /\ UNCHANGED <<local, procs, hostOf>>

\* the expander at the end of the script run that handled a Submit
Preview(p, res) ==
  /\ pc[p] = "preview"
  /\ res \in DownloadResults
  /\ local' = IF res = "ok"
              THEN [local EXCEPT ![hostOf[p]] = download_write(@, remote)]
              ELSE local
  /\ run' = [MarkDirty(run, p, hostOf[p], res = "ok") EXCEPT ![p] = RunIdle]
  /\ pc' = [pc EXCEPT ![p] = "idle"]
  /\ UNCHANGED <<remote, procs, hostOf, form, outcome, unsynced>>

\* a script run without Submit (page load or rerun): only the expander acts
PageLoad(p, res) ==
  /\ pc[p] = "idle"
  /\ res \in DownloadResults
  /\ local' = IF res = "ok"
              THEN [local EXCEPT ![hostOf[p]] = download_write(@, remote)]
              ELSE local
  /\ run' = MarkDirty(run, p, hostOf[p], res = "ok")
  /\ outcome' = [outcome EXCEPT ![p] = "none"]
  /\ UNCHANGED <<remote, procs, hostOf, pc, form, unsynced>>

Results == {"ok", "notfound", "error"}

Next ==
  \E p \in procs :
    \/ \E n \in NameInputs, s1 \in Song1Inputs, s2 \in Song2Inputs :
         Submit(p, n, s1, s2)
    \/ \E res \in Results : Download(p, res)
    \/ Load(p)
    \/ Save(p)
    \/ \E ok \in BOOLEAN : Upload(p, ok)
    \/ \E res \in Results : Preview(p, res)
    \/ \E res \in Results : PageLoad(p, res)

Spec == Init /\ [][Next]_vars

\* what each of two concurrent submitters types: their own name, valid songs
NameOf(p) == IF p = 1 THEN <<"a">> ELSE <<" ","N","A"," ">>

NextConc ==
  \E p \in procs :
    \/ \E s1 \in {<<"x">>}, s2 \in {<<"y"," ">>} : Submit(p, NameOf(p), s1, s2)
    \/ \E res \in Results : Download(p, res)
    \/ Load(p)
    \/ Save(p)
    \/ \E ok \in BOOLEAN : Upload(p, ok)
    \/ \E res \in Results : Preview(p, res)
    \/ \E res \in Results : PageLoad(p, res)

SpecConc == InitConc /\ [][NextConc]_vars

\* every call of a script run returns (with a result or an exception), so a
\* script run that started goes on to its end
Step(p) ==
  \/ \E res \in Results : Download(p, res)
  \/ Load(p)
  \/ Save(p)
  \/ \E ok \in BOOLEAN : Upload(p, ok)
  \/ \E res \in Results : Preview(p, res)

FairSpec == Init /\ [][Next]_vars /\ \A p \in Procs : WF_vars(Step(p))

TypeOK ==
  /\ pc \in [Procs -> {"idle", "download", "load", "save", "upload", "preview"}]
  /\ remote = NoFile \/ remote[1] = COLUMNS
  /\ outcome \in [Procs -> {"none", "rejected", "success", "softerror"}]

\* ------------------------------------------------------- claim vocabulary
Last(s) == s[Len(s)]

\* empty after whitespace trimming, said without strip
Blank(s) == \A i \in 1..Len(s) : s[i] = " "

\* a text without leading or trailing whitespace
Trimmed(s) == s # <<>> /\ s[1] # " " /\ s[Len(s)] # " "

\* number of rows of the table a local file holds (none when it is absent
\* or cannot be parsed)
TableLen(f) == IF f = NoFile \/ f \in MalformedFiles THEN 0 ELSE Len(f) - 1

\* session p made the step from pc value a to pc value b
Moved(p, a, b) == pc[p] = a /\ pc'[p] = b

\* append_submission of session p has returned and its history is still there
Returned(p) == p \in procs /\ pc[p] = "preview" /\ run[p].nUp = 1

\* ------------------------------------------------------------------ claims

\* C1: a valid submission whose download and upload both succeed uploads the
\* downloaded table, rows unchanged and in order, followed by one new last
\* row holding the three trimmed values.
C1_UploadIsDownloadPlusRow ==
  \A p \in Procs :
    (Returned(p) /\ run[p].dl = "ok" /\ run[p].up = "ok")
      => /\ run[p].sent = run[p].remote0 \o <<run[p].row>>
         /\ \A k \in 1..3 : Trimmed(run[p].row[k])

\* C2: pressing Submit with Name, Song1 or Song2 empty after trimming is
\* rejected with an error; append_submission is not called, no download or
\* upload is attempted, and neither the remote nor the local file changes.
C2_BlankIsRejected ==
  /\ [][\A p \in Procs :
          (Moved(p, "idle", "preview") \/ Moved(p, "idle", "download"))
          /\ (\E k \in 1..3 : Blank(form'[p][k]))
          => /\ pc'[p] = "preview"
             /\ outcome'[p] = "rejected"
             /\ run'[p] = RunIdle
             /\ remote' = remote
             /\ local' = local]_vars
  /\ [](\A p \in Procs :
          (pc[p] = "preview" /\ outcome[p] = "rejected")
            => run[p].nDown = 0 /\ run[p].nUp = 0)

C2_Witness ==
  \E p \in procs :
    /\ pc[p] = "preview"
    /\ outcome[p] = "rejected"
    /\ ~Blank(form[p][1])
    /\ remote # NoFile

C5_RowsNeverChange ==
  [][\A i \in 1..Len(Rows(remote)) :
       /\ i <= Len(Rows(remote'))
       /\ Rows(remote')[i] = Rows(remote)[i]]_vars

C9_RemoteFieldsNonEmpty ==
  \A i \in 1..Len(Rows(remote)) :
    /\ Len(Rows(remote)[i]) = 3
    /\ \A k \in 1..3 : ~Blank(Rows(remote)[i][k])

C9_Witness ==
  /\ Len(Rows(remote)) = 2
  /\ \E p \in procs : Returned(p) /\ run[p].up = "ok"

\* C10 (as claimed): after a later submission whose download and upload
\* succeed, neither the local file nor the remote table holds the row of a
\* submission whose upload failed, unless it was submitted again: the row
\* has no more occurrences than the remote table had when its upload failed.
C10_LocalOnlyRowIsGone ==
  \A p \in Procs :
    (Returned(p) /\ run[p].dl = "ok" /\ run[p].up = "ok")
      => \A u \in unsynced[hostOf[p]] :
           /\ Occurrences(u.row, Rows(remote)) <= u.base
           /\ Occurrences(u.row, Rows(local[hostOf[p]])) <= u.base

\* C10 (amended): a successful download leaves the local file equal to the
\* remote content, and after a later submission whose download and upload
\* succeed the local file and the remote table hold a row whose upload failed
\* (and that was not submitted again) no more often than the downloaded table
\* did.
C10_LocalOnlyRowIsDropped ==
  \A p \in Procs :
    LET h == hostOf[p]
    IN /\ (p \in procs /\ pc[p] = "load" /\ run[p].dl = "ok")
            => local[h] = remote
       /\ (Returned(p) /\ run[p].dl = "ok" /\ run[p].up = "ok")
            => \A u \in unsynced[h] :
                 /\ u.row # run[p].row
                 /\ Occurrences(u.row, Rows(remote))
                      <= Occurrences(u.row, Rows(run[p].remote0))
                 /\ Occurrences(u.row, Rows(local[h]))
                      <= Occurrences(u.row, Rows(run[p].remote0))

C10_Witness ==
  \E p \in procs :
    /\ Returned(p)
    /\ run[p].dl = "ok" /\ run[p].up = "ok"
    /\ \E u \in unsynced[hostOf[p]] :
         /\ Occurrences(u.row, Rows(remote)) = 0
         /\ Occurrences(u.row, Rows(local[hostOf[p]])) = 0
         /\ Len(Rows(remote)) = 2

====
